---- MODULE Spec2Model ----
(***************************************************************************)
(* Model of the PrismWorlds client components:                             *)
(*   src/src/pages/SignUp.tsx               (the sign-up form)             *)
(*   src/src/components/CreateLessonModal.tsx (lesson modal, student modal)*)
(*                                                                         *)
(* A JavaScript string is a sequence of one-character strings, so that     *)
(* trim, length and the regular expressions are computed on characters.    *)
(* A React event handler runs to completion before the next event, and the *)
(* component is re-rendered between events, so the values a handler reads  *)
(* from its closure are the state at the moment the event is dispatched.   *)
(* The part of an async handler after its await keeps the closure of the   *)
(* render in which the handler was started.                                *)
(***************************************************************************)
EXTENDS Integers, Sequences, FiniteSets, TLC

VARIABLES
    su_formData,      \* SignUp: useState<FormData>
    su_errors,        \* SignUp: useState<FormErrors>
    su_isSubmitting,  \* SignUp: useState(false)
    su_isSuccess,     \* SignUp: useState(false)
    su_pc,            \* SignUp: position of the running handleSubmit
    su_closure,       \* SignUp: formData captured by the running handleSubmit
    su_timer,         \* SignUp: the redirect setTimeout is pending
    localStorage,     \* window.localStorage, a set of [key, value] items
    setItemCalls,     \* number of localStorage.setItem calls that returned
    navigateCalls,    \* routes passed to navigate(), in call order
    cl_isOpen,        \* CreateLessonModal: the isOpen prop
    cl_formData,      \* CreateLessonModal: useState<LessonFormData>
    cl_errors,        \* CreateLessonModal: useState<FormErrors>
    cl_isSubmitting,  \* CreateLessonModal: useState(false)
    cl_pc,            \* CreateLessonModal: position of the running handleSubmit
    cl_closure,       \* CreateLessonModal: formData captured by the running handleSubmit
    cl_calls,         \* calls of the onSave / onClose props made by the last step
    sd_student,       \* StudentDetailModal: the student prop
    sd_isOpen,        \* StudentDetailModal: the isOpen prop
    sd_locale,        \* the default locale of the browser
    sd_view,          \* StudentDetailModal: what the last render returned
    sd_calls          \* calls of the onClose prop made by the last step

\* the state of the SignUp component
su_vars == <<su_formData, su_errors, su_isSubmitting, su_isSuccess, su_pc,
             su_closure, su_timer>>

\* the browser: storage and router
browser_vars == <<localStorage, setItemCalls, navigateCalls>>

\* the state and props of the CreateLessonModal component
cl_vars == <<cl_isOpen, cl_formData, cl_errors, cl_isSubmitting, cl_pc, cl_closure,
             cl_calls>>

\* the props and output of the StudentDetailModal component
sd_vars == <<sd_student, sd_isOpen, sd_locale, sd_view, sd_calls>>

vars == <<su_vars, browser_vars, cl_vars, sd_vars>>

----------------------------------------------------------------------------
(* Strings and the regular expressions of the source                       *)

\* the value of an unset optional property / a cleared error
undefined == "undefined"

Rep(c, n) == [i \in 1..n |-> c]

LowerCase == {"a","b","c","d","e","f","g","h","i","j","k","l","m",
              "n","o","p","q","r","s","t","u","v","w","x","y","z"}

UpperCase == {"A","B","C","D","E","F","G","H","I","J","K","L","M",
              "N","O","P","Q","R","S","T","U","V","W","X","Y","Z"}

\* \s of a JavaScript regular expression; also what String.trim removes
WhiteSpace == {" ", "\t", "\n", "\r"}

\* [a-zA-Z\s.,'-]
TextOnlyChar == LowerCase \cup UpperCase \cup WhiteSpace \cup {".", ",", "'", "-"}

\* /^[a-zA-Z\s.,'-]+$/.test(s)
textOnlyRegex(s) == Len(s) >= 1 /\ \A i \in 1..Len(s) : s[i] \in TextOnlyChar

\* [^\s@]
EmailChar(c) == c \notin WhiteSpace /\ c # "@"

\* /^[^\s@]+@[^\s@]+\.[^\s@]+$/.test(s) : the '@' at i, the '.' at j
emailRegex(s) ==
    \E i \in 1..Len(s) : \E j \in 1..Len(s) :
        /\ s[i] = "@"
        /\ s[j] = "."
        /\ 1 < i /\ i + 1 < j /\ j < Len(s)
        /\ \A k \in 1..Len(s) : k # i => EmailChar(s[k])

RECURSIVE trimStart(_)
trimStart(s) == IF s # <<>> /\ Head(s) \in WhiteSpace THEN trimStart(Tail(s)) ELSE s

RECURSIVE trimEnd(_)
trimEnd(s) ==
    IF s # <<>> /\ s[Len(s)] \in WhiteSpace THEN trimEnd(SubSeq(s, 1, Len(s) - 1)) ELSE s

\* String.prototype.trim
trim(s) == trimEnd(trimStart(s))

\* truthiness of an error slot: a message, or undefined
IsSet(e) == e # undefined

----------------------------------------------------------------------------
(* SignUp.tsx                                                              *)

SignUp_ErrorKeys ==
    {"name", "email", "password", "confirmPassword", "grade", "school", "state", "general"}

\* const newErrors: FormErrors = {}  /  setErrors({})
SignUp_noErrors == [k \in SignUp_ErrorKeys |-> undefined]

\* grade, school and state start undefined; the source only ever tests them
\* for truthiness or reads them as (x || ''), so undefined is modelled as ''.
SignUp_initialFormData ==
    [name |-> <<>>, email |-> <<>>, password |-> <<>>, confirmPassword |-> <<>>,
     role |-> "student", grade |-> <<>>, school |-> <<>>, state |-> <<>>]

SignUp_validateTextOnly(value, fieldName) ==
    IF value # <<>> /\ ~textOnlyRegex(value)
    THEN fieldName \o " can only contain letters, spaces, and basic punctuation"
    ELSE undefined

SignUp_nameError(fd) ==
    IF trim(fd.name) = <<>> THEN "Name is required"
    ELSE SignUp_validateTextOnly(fd.name, "Name")

SignUp_emailError(fd) ==
    IF trim(fd.email) = <<>> THEN "Email is required"
    ELSE IF ~emailRegex(fd.email) THEN "Please enter a valid email address"
    ELSE undefined

\* the length test off by one
SignUp_passwordError_offByOne(fd) ==
    IF fd.password = <<>> THEN "Password is required"
    ELSE IF Len(fd.password) <= 6 THEN "Password must be at least 6 characters long"
    ELSE undefined

SignUp_passwordError(fd) ==
    IF fd.password = <<>> THEN "Password is required"
    ELSE IF Len(fd.password) < 6 THEN "Password must be at least 6 characters long"
    ELSE undefined

SignUp_confirmPasswordError(fd) ==
    IF fd.confirmPassword = <<>> THEN "Please confirm your password"
    ELSE IF fd.password # fd.confirmPassword THEN "Passwords do not match"
    ELSE undefined

SignUp_gradeError(fd) ==
    IF fd.role = "student" /\ fd.grade = <<>> THEN "Grade is required for students"
    ELSE undefined

SignUp_schoolError(fd) ==
    IF fd.school # <<>> THEN SignUp_validateTextOnly(fd.school, "School name")
    ELSE undefined

\* the newErrors object validateForm builds and hands to setErrors
SignUp_newErrors(fd) ==
    [SignUp_noErrors EXCEPT
        !.name = SignUp_nameError(fd),
        !.email = SignUp_emailError(fd),
        !.password = SignUp_passwordError(fd),
        !.confirmPassword = SignUp_confirmPasswordError(fd),
        !.grade = SignUp_gradeError(fd),
        !.school = SignUp_schoolError(fd)]

\* Object.keys(newErrors).length === 0
SignUp_validateForm(fd) == \A k \in SignUp_ErrorKeys : ~IsSet(SignUp_newErrors(fd)[k])

\* the form is on screen: not replaced by the success card, route not left
SignUp_formRendered == ~su_isSuccess /\ navigateCalls = <<>>

\* the success card: "Redirecting to your {formData.role} portal..."
SignUp_successPortal == su_formData.role

\* values typed or selected in the fields of the sign-up form
SignUp_nameValues == {<<>>, <<"A", "l">>, <<"A", "1">>}

SignUp_emailValues == {<<"a", "@", "b", ".", "c">>}

SignUp_passwordValues == {Rep("p", 6), Rep("p", 5), Rep("p", 7)}

SignUp_confirmPasswordValues == {Rep("p", 6), Rep("p", 7)}

\* const grades = ['6th', ...] and the empty option of the select
SignUp_gradeValues == {<<>>, <<"6", "t", "h">>}

SignUp_schoolValues == {<<>>, <<"S", "t", ".", " ", "X">>, <<"P", "S", "9">>}

\* const indianStates = [...] and the empty option of the select
SignUp_stateValues == {<<"G", "o", "a">>}

SignUp_fieldValues(name) ==
    CASE name = "name" -> SignUp_nameValues
      [] name = "email" -> SignUp_emailValues
      [] name = "password" -> SignUp_passwordValues
      [] name = "confirmPassword" -> SignUp_confirmPasswordValues
      [] name = "grade" -> SignUp_gradeValues
      [] name = "school" -> SignUp_schoolValues
      [] name = "state" -> SignUp_stateValues

\* the inputs and selects wired to handleChange
SignUp_inputNames ==
    {"name", "email", "password", "confirmPassword", "grade", "school", "state"}

\* the clearing done with setErrors({}) : every error dropped
SignUp_changedErrors_clearAll(errors, name, value) ==
    LET checked ==
            IF name \in {"name", "school"}
            THEN [errors EXCEPT ![name] =
                     SignUp_validateTextOnly(value,
                         IF name = "name" THEN "Name" ELSE "School name")]
            ELSE errors
    IN  IF IsSet(errors[name]) THEN SignUp_noErrors ELSE checked

\* the errors handleChange leaves: the real-time check of name and school,
\* then the clearing of the field's error as the closure saw it
SignUp_changedErrors(errors, name, value) ==
    LET checked ==
            IF name \in {"name", "school"}
            THEN [errors EXCEPT ![name] =
                     SignUp_validateTextOnly(value,
                         IF name = "name" THEN "Name" ELSE "School name")]
            ELSE errors
    IN  IF IsSet(errors[name]) THEN [checked EXCEPT ![name] = undefined] ELSE checked

SignUp_handleChange(name, value) ==
    /\ SignUp_formRendered
    /\ name = "grade" => su_formData.role = "student"
    /\ su_formData' = [su_formData EXCEPT ![name] = value]
    /\ su_errors' = SignUp_changedErrors(su_errors, name, value)
    /\ UNCHANGED <<su_isSubmitting, su_isSuccess, su_pc, su_closure, su_timer,
                   localStorage, setItemCalls, navigateCalls>>

\* onClick of the Student / Teacher buttons
SignUp_selectRole(role) ==
    /\ SignUp_formRendered
    /\ su_formData' = [su_formData EXCEPT !.role = role]
    /\ UNCHANGED <<su_errors, su_isSubmitting, su_isSuccess, su_pc, su_closure,
                   su_timer, localStorage, setItemCalls, navigateCalls>>

\* the disabled prop of the 'Create Account' button
SignUp_submitDisabled == su_isSubmitting

\* handleSubmit reachable while a submission is pending: the submit button
\* never disabled
SignUp_handleSubmit_notDisabled ==
    /\ SignUp_formRendered
    /\ IF ~SignUp_validateForm(su_formData)
       THEN /\ su_errors' = SignUp_newErrors(su_formData)
            /\ UNCHANGED <<su_isSubmitting, su_pc, su_closure>>
       ELSE /\ su_isSubmitting' = TRUE
            /\ su_errors' = SignUp_noErrors
            /\ su_pc' = "delay"
            /\ su_closure' = su_formData
    /\ UNCHANGED <<su_formData, su_isSuccess, su_timer, localStorage, setItemCalls,
                   navigateCalls>>

\* handleSubmit without the early return after a failed validation
SignUp_handleSubmit_noReturn ==
    /\ SignUp_formRendered
    /\ ~su_isSubmitting
    /\ su_isSubmitting' = TRUE
    /\ su_errors' = SignUp_noErrors
    /\ su_pc' = "delay"
    /\ su_closure' = su_formData
    /\ UNCHANGED <<su_formData, su_isSuccess, su_timer, localStorage, setItemCalls,
                   navigateCalls>>

\* handleSubmit up to its await; the submit button is disabled while
\* isSubmitting, which also blocks implicit submission of the form
SignUp_handleSubmit ==
    /\ SignUp_formRendered
    /\ ~su_isSubmitting
    /\ IF ~SignUp_validateForm(su_formData)
       THEN /\ su_errors' = SignUp_newErrors(su_formData)
            /\ UNCHANGED <<su_isSubmitting, su_pc, su_closure>>
       ELSE /\ su_isSubmitting' = TRUE
            /\ su_errors' = SignUp_noErrors
            /\ su_pc' = "delay"
            /\ su_closure' = su_formData
    /\ UNCHANGED <<su_formData, su_isSuccess, su_timer, localStorage, setItemCalls,
                   navigateCalls>>

\* userData built by spreading the whole form into it
SignUp_userData_spreadForm(fd, now1, now2) ==
    {<<"id", now1>>, <<"joinDate", now2>>}
    \cup {<<k, fd[k]>> : k \in {"name", "email", "password", "confirmPassword", "role"}}
    \cup (IF fd.role = "student" THEN {<<"grade", fd.grade>>} ELSE {})
    \cup (IF fd.school # <<>> THEN {<<"school", fd.school>>} ELSE {})
    \cup (IF fd.state # <<>> THEN {<<"state", fd.state>>} ELSE {})

\* the object literal userData, as JSON.stringify writes it: the set of its
\* <<key, value>> members (a spread of a falsy operand adds no member)
SignUp_userData(fd, now1, now2) ==
    {<<"id", now1>>, <<"name", fd.name>>, <<"email", fd.email>>, <<"role", fd.role>>}
    \cup (IF fd.role = "student" THEN {<<"grade", fd.grade>>} ELSE {})
    \cup (IF fd.school # <<>> THEN {<<"school", fd.school>>} ELSE {})
    \cup (IF fd.state # <<>> THEN {<<"state", fd.state>>} ELSE {})
    \cup {<<"joinDate", now2>>}

\* Storage.setItem: the item under key is replaced
setItem(storage, key, value) ==
    {it \in storage : it.key # key} \cup {[key |-> key, value |-> value]}

\* readings of the clock by Date.now() and new Date()
MaxClock == 1

\* setErrors({ general: ... }) of the catch block
SignUp_catchErrors ==
    [SignUp_noErrors EXCEPT !.general = "Registration failed. Please try again."]

\* setIsSuccess(true) moved before the storage write
SignUp_handleSubmitResume_successFirst(throws) ==
    /\ su_pc = "delay"
    /\ su_pc' = "done"
    /\ su_isSuccess' = TRUE
    /\ IF ~throws
       THEN \E now1 \in 1..MaxClock : \E now2 \in now1..MaxClock :
            /\ localStorage' = setItem(localStorage, "currentUser",
                                       SignUp_userData(su_closure, now1, now2))
            /\ setItemCalls' = setItemCalls + 1
            /\ su_timer' = TRUE
            /\ UNCHANGED su_errors
       ELSE /\ su_errors' = SignUp_catchErrors
            /\ UNCHANGED <<localStorage, setItemCalls, su_timer>>
    /\ su_isSubmitting' = FALSE
    /\ UNCHANGED <<su_formData, su_closure, navigateCalls>>

\* setIsSubmitting(false) at the end of the try block instead of in finally
SignUp_handleSubmitResume_noFinally(throws) ==
    /\ su_pc = "delay"
    /\ su_pc' = "done"
    /\ IF ~throws
       THEN \E now1 \in 1..MaxClock : \E now2 \in now1..MaxClock :
            /\ localStorage' = setItem(localStorage, "currentUser",
                                       SignUp_userData(su_closure, now1, now2))
            /\ setItemCalls' = setItemCalls + 1
            /\ su_isSuccess' = TRUE
            /\ su_timer' = TRUE
            /\ su_isSubmitting' = FALSE
            /\ UNCHANGED su_errors
       ELSE /\ su_errors' = SignUp_catchErrors
            /\ UNCHANGED <<localStorage, setItemCalls, su_isSuccess, su_timer,
                           su_isSubmitting>>
    /\ UNCHANGED <<su_formData, su_closure, navigateCalls>>

\* handleSubmit after the 2000 ms timer: try / catch / finally.
\* localStorage.setItem is the one call of the try block that can throw
\* (quota exceeded, storage denied); throws is the environment's choice.
SignUp_handleSubmitResume(throws) ==
    /\ su_pc = "delay"
    /\ su_pc' = "done"
    /\ IF ~throws
       THEN \E now1 \in 1..MaxClock : \E now2 \in now1..MaxClock :
            /\ localStorage' = setItem(localStorage, "currentUser",
                                       SignUp_userData(su_closure, now1, now2))
            /\ setItemCalls' = setItemCalls + 1
            /\ su_isSuccess' = TRUE
            /\ su_timer' = TRUE
            /\ UNCHANGED su_errors
       ELSE /\ su_errors' = SignUp_catchErrors
            /\ UNCHANGED <<localStorage, setItemCalls, su_isSuccess, su_timer>>
    /\ su_isSubmitting' = FALSE
    /\ UNCHANGED <<su_formData, su_closure, navigateCalls>>

\* the redirect without its role branch
SignUp_redirectRoute_noBranch(fd) == "/dashboard"

\* the route the redirect callback navigates to
SignUp_redirectRoute(fd) == IF fd.role = "student" THEN "/dashboard" ELSE "/teacher"

\* the redirect scheduled with setInterval: the timer stays armed
SignUp_redirect_interval ==
    /\ su_timer
    /\ navigateCalls' = Append(navigateCalls, SignUp_redirectRoute(su_closure))
    /\ UNCHANGED <<su_formData, su_errors, su_isSubmitting, su_isSuccess, su_pc,
                   su_closure, su_timer, localStorage, setItemCalls>>

\* the callback of the second setTimeout
SignUp_redirect ==
    /\ su_timer
    /\ su_timer' = FALSE
    /\ navigateCalls' = Append(navigateCalls, SignUp_redirectRoute(su_closure))
    /\ UNCHANGED <<su_formData, su_errors, su_isSubmitting, su_isSuccess, su_pc,
                   su_closure, localStorage, setItemCalls>>

\* the useState initial values
SignUp_Init ==
    /\ su_formData = SignUp_initialFormData
    /\ su_errors = SignUp_noErrors
    /\ su_isSubmitting = FALSE
    /\ su_isSuccess = FALSE
    /\ su_pc = "idle"
    /\ su_closure = SignUp_initialFormData
    /\ su_timer = FALSE

SignUp_Next ==
    \/ \E name \in SignUp_inputNames : \E value \in SignUp_fieldValues(name) :
          SignUp_handleChange(name, value)
    \/ \E role \in {"student", "teacher"} : SignUp_selectRole(role)
    \/ SignUp_handleSubmit
    \/ \E throws \in BOOLEAN : SignUp_handleSubmitResume(throws)
    \/ SignUp_redirect

----------------------------------------------------------------------------
(* CreateLessonModal.tsx : CreateLessonModal                               *)

Lesson_ErrorKeys == {"title", "subject", "description", "duration", "objectives", "category"}

\* const newErrors: FormErrors = {}  /  setErrors({})
Lesson_noErrors == [k \in Lesson_ErrorKeys |-> undefined]

\* the initial value of formData, also what the two resets assign
Lesson_initialFormData ==
    [title |-> <<>>, subject |-> <<>>, description |-> <<>>, duration |-> 30,
     objectives |-> << <<>> >>, difficulty |-> "Beginner", category |-> <<>>,
     prerequisites |-> <<>>, materials |-> << <<>> >>]

Lesson_validateTextOnly(value, fieldName) ==
    IF value # <<>> /\ ~textOnlyRegex(value)
    THEN fieldName \o " can only contain letters, spaces, and basic punctuation"
    ELSE undefined

\* array.filter(x => x.trim())
RECURSIVE filterNonBlank(_)
filterNonBlank(list) ==
    IF list = <<>> THEN <<>>
    ELSE IF trim(Head(list)) # <<>> THEN <<Head(list)>> \o filterNonBlank(Tail(list))
    ELSE filterNonBlank(Tail(list))

Lesson_titleError(fd) ==
    IF trim(fd.title) = <<>> THEN "Lesson title is required"
    ELSE Lesson_validateTextOnly(fd.title, "Title")

Lesson_subjectError(fd) ==
    IF trim(fd.subject) = <<>> THEN "Subject is required" ELSE undefined

Lesson_descriptionError(fd) ==
    IF trim(fd.description) = <<>> THEN "Description is required"
    ELSE IF Len(fd.description) < 20 THEN "Description must be at least 20 characters long"
    ELSE undefined

\* the range test with both ends excluded
Lesson_durationError_exclusive(fd) ==
    IF fd.duration <= 15 \/ fd.duration >= 180
    THEN "Duration must be between 15 and 180 minutes"
    ELSE undefined

Lesson_durationError(fd) ==
    IF fd.duration < 15 \/ fd.duration > 180
    THEN "Duration must be between 15 and 180 minutes"
    ELSE undefined

\* the objectives counted without the filter
Lesson_objectivesError_unfiltered(fd) ==
    IF Len(fd.objectives) = 0
    THEN "At least one learning objective is required"
    ELSE undefined

Lesson_objectivesError(fd) ==
    IF Len(filterNonBlank(fd.objectives)) = 0
    THEN "At least one learning objective is required"
    ELSE undefined

Lesson_categoryError(fd) ==
    IF trim(fd.category) = <<>> THEN "Category is required" ELSE undefined

\* the newErrors object validateForm builds and hands to setErrors
Lesson_newErrors(fd) ==
    [title |-> Lesson_titleError(fd),
     subject |-> Lesson_subjectError(fd),
     description |-> Lesson_descriptionError(fd),
     duration |-> Lesson_durationError(fd),
     objectives |-> Lesson_objectivesError(fd),
     category |-> Lesson_categoryError(fd)]

\* Object.keys(newErrors).length === 0
Lesson_validateForm(fd) == \A k \in Lesson_ErrorKeys : ~IsSet(Lesson_newErrors(fd)[k])

Digits == <<"0", "1", "2", "3", "4", "5", "6", "7", "8", "9">>

IsDigit(c) == \E d \in 1..10 : Digits[d] = c

DigitValue(c) == (CHOOSE d \in 1..10 : Digits[d] = c) - 1

\* the longest prefix of s made of decimal digits
RECURSIVE digitPrefix(_)
digitPrefix(s) ==
    IF s # <<>> /\ IsDigit(Head(s)) THEN <<Head(s)>> \o digitPrefix(Tail(s)) ELSE <<>>

RECURSIVE decimalValue(_)
decimalValue(ds) ==
    IF ds = <<>> THEN 0
    ELSE 10 * decimalValue(SubSeq(ds, 1, Len(ds) - 1)) + DigitValue(ds[Len(ds)])

\* parseInt(value) || 0 : leading white space, an optional sign, then the
\* decimal digits up to the first other character; NaN (no digit) gives 0
parseIntOrZero(value) ==
    LET t == trimStart(value)
        signed == t # <<>> /\ Head(t) \in {"+", "-"}
        ds == digitPrefix(IF signed THEN Tail(t) ELSE t)
    IN  IF ds = <<>> THEN 0
        ELSE IF signed /\ Head(t) = "-" THEN 0 - decimalValue(ds)
        ELSE decimalValue(ds)

\* longest objectives / materials list the Add buttons are pressed up to
MaxItems == 2

\* values typed or selected in the fields of the lesson form
Lesson_titleValues == {<<"S", "o", "i", "l">>, <<"H", "2", "O">>}

\* const subjects = [...]
Lesson_subjectValues == {<<"E", "c", "o", "l", "o", "g", "y">>}

Lesson_descriptionValues == {Rep("d", 20)}

\* the text of the number input
Lesson_durationValues == {<<>>}

\* const categories = [...]
Lesson_categoryValues == {<<"T", "h", "e", "o", "r", "y">>}

Lesson_objectiveValues == {<<"o">>}

Lesson_materialValues == {<<"m">>}

Lesson_fieldValues(name) ==
    CASE name = "title" -> Lesson_titleValues
      [] name = "subject" -> Lesson_subjectValues
      [] name = "description" -> Lesson_descriptionValues
      [] name = "duration" -> Lesson_durationValues
      [] name = "category" -> Lesson_categoryValues

\* the inputs wired to handleChange that the model types into
Lesson_inputNames == {"title", "subject", "description", "category"}

\* the errors handleChange leaves: the real-time check of the title, then
\* the clearing of the field's error as the closure saw it
Lesson_changedErrors(errors, name, value) ==
    LET checked ==
            IF name = "title"
            THEN [errors EXCEPT ![name] = Lesson_validateTextOnly(value, "Title")]
            ELSE errors
    IN  IF name \in Lesson_ErrorKeys /\ IsSet(errors[name])
        THEN [checked EXCEPT ![name] = undefined]
        ELSE checked

Lesson_handleChange(name, value) ==
    /\ cl_isOpen
    /\ cl_formData' = [cl_formData EXCEPT ![name] =
                          IF name = "duration" THEN parseIntOrZero(value) ELSE value]
    /\ cl_errors' = Lesson_changedErrors(cl_errors, name, value)
    /\ cl_calls' = <<>>
    /\ UNCHANGED browser_vars
    /\ UNCHANGED <<cl_isOpen, cl_isSubmitting, cl_pc, cl_closure>>

Lesson_handleObjectiveChange(index, value) ==
    /\ cl_isOpen
    /\ index \in 1..Len(cl_formData.objectives)
    /\ cl_formData' = [cl_formData EXCEPT !.objectives[index] = value]
    /\ cl_errors' = IF IsSet(cl_errors.objectives)
                    THEN [cl_errors EXCEPT !.objectives = undefined]
                    ELSE cl_errors
    /\ cl_calls' = <<>>
    /\ UNCHANGED browser_vars
    /\ UNCHANGED <<cl_isOpen, cl_isSubmitting, cl_pc, cl_closure>>

Lesson_addObjective ==
    /\ cl_isOpen
    /\ Len(cl_formData.objectives) < MaxItems
    /\ cl_formData' = [cl_formData EXCEPT !.objectives = Append(@, <<>>)]
    /\ cl_calls' = <<>>
    /\ UNCHANGED browser_vars
    /\ UNCHANGED <<cl_isOpen, cl_errors, cl_isSubmitting, cl_pc, cl_closure>>

\* list.filter((_, i) => i !== index)
removeAt(list, index) ==
    SubSeq(list, 1, index - 1) \o SubSeq(list, index + 1, Len(list))

\* the remove button is rendered only when the list has more than one entry
Lesson_removeObjective(index) ==
    /\ cl_isOpen
    /\ index \in 1..Len(cl_formData.objectives)
    /\ Len(cl_formData.objectives) > 1
    /\ cl_formData' = [cl_formData EXCEPT !.objectives = removeAt(@, index)]
    /\ cl_calls' = <<>>
    /\ UNCHANGED browser_vars
    /\ UNCHANGED <<cl_isOpen, cl_errors, cl_isSubmitting, cl_pc, cl_closure>>

Lesson_handleMaterialChange(index, value) ==
    /\ cl_isOpen
    /\ index \in 1..Len(cl_formData.materials)
    /\ cl_formData' = [cl_formData EXCEPT !.materials[index] = value]
    /\ cl_calls' = <<>>
    /\ UNCHANGED browser_vars
    /\ UNCHANGED <<cl_isOpen, cl_errors, cl_isSubmitting, cl_pc, cl_closure>>

Lesson_addMaterial ==
    /\ cl_isOpen
    /\ Len(cl_formData.materials) < MaxItems
    /\ cl_formData' = [cl_formData EXCEPT !.materials = Append(@, <<>>)]
    /\ cl_calls' = <<>>
    /\ UNCHANGED browser_vars
    /\ UNCHANGED <<cl_isOpen, cl_errors, cl_isSubmitting, cl_pc, cl_closure>>

Lesson_removeMaterial(index) ==
    /\ cl_isOpen
    /\ index \in 1..Len(cl_formData.materials)
    /\ Len(cl_formData.materials) > 1
    /\ cl_formData' = [cl_formData EXCEPT !.materials = removeAt(@, index)]
    /\ cl_calls' = <<>>
    /\ UNCHANGED browser_vars
    /\ UNCHANGED <<cl_isOpen, cl_errors, cl_isSubmitting, cl_pc, cl_closure>>

\* a call of the onSave prop with its argument, and a call of the onClose prop
onSave(lessonData) == [fn |-> "onSave", arg |-> lessonData]

onClose == [fn |-> "onClose"]

\* the disabled prop of the 'Create Lesson' button
Lesson_submitDisabled == cl_isSubmitting

\* handleSubmit without the early return after a failed validation
Lesson_handleSubmit_noReturn ==
    /\ cl_isOpen
    /\ ~cl_isSubmitting
    /\ cl_errors' = Lesson_newErrors(cl_formData)
    /\ cl_isSubmitting' = TRUE
    /\ cl_pc' = "delay"
    /\ cl_closure' = cl_formData
    /\ cl_calls' = <<>>
    /\ UNCHANGED browser_vars
    /\ UNCHANGED <<cl_isOpen, cl_formData>>

\* handleSubmit up to its await; the submit button is disabled while isSubmitting
Lesson_handleSubmit ==
    /\ cl_isOpen
    /\ ~cl_isSubmitting
    /\ cl_errors' = Lesson_newErrors(cl_formData)
    /\ IF ~Lesson_validateForm(cl_formData)
       THEN UNCHANGED <<cl_isSubmitting, cl_pc, cl_closure>>
       ELSE /\ cl_isSubmitting' = TRUE
            /\ cl_pc' = "delay"
            /\ cl_closure' = cl_formData
    /\ cl_calls' = <<>>
    /\ UNCHANGED browser_vars
    /\ UNCHANGED <<cl_isOpen, cl_formData>>

\* const cleanedData = { ...formData, objectives: ..., materials: ... }
Lesson_cleanedData(fd) ==
    [fd EXCEPT !.objectives = filterNonBlank(fd.objectives),
               !.materials = filterNonBlank(fd.materials)]

\* the lesson also kept in localStorage before onSave is called
Lesson_handleSubmitResume_persist(throws) ==
    /\ cl_pc = "delay"
    /\ cl_pc' = "done"
    /\ IF ~throws
       THEN /\ cl_formData' = Lesson_initialFormData
            /\ cl_calls' = <<onSave(Lesson_cleanedData(cl_closure)), onClose>>
       ELSE /\ cl_calls' = <<onSave(Lesson_cleanedData(cl_closure))>>
            /\ UNCHANGED cl_formData
    /\ cl_isSubmitting' = FALSE
    /\ cl_closure' = Lesson_initialFormData
    /\ UNCHANGED <<cl_isOpen, cl_errors>>
    /\ localStorage' = setItem(localStorage, "lesson", Lesson_cleanedData(cl_closure))
    /\ setItemCalls' = setItemCalls + 1
    /\ UNCHANGED navigateCalls

\* setIsSubmitting(false) at the end of the try block instead of in finally
Lesson_handleSubmitResume_noFinally(throws) ==
    /\ cl_pc = "delay"
    /\ cl_pc' = "done"
    /\ IF ~throws
       THEN /\ cl_formData' = Lesson_initialFormData
            /\ cl_calls' = <<onSave(Lesson_cleanedData(cl_closure)), onClose>>
            /\ cl_isSubmitting' = FALSE
       ELSE /\ cl_calls' = <<onSave(Lesson_cleanedData(cl_closure))>>
            /\ UNCHANGED <<cl_formData, cl_isSubmitting>>
    /\ cl_closure' = Lesson_initialFormData
    /\ UNCHANGED <<cl_isOpen, cl_errors>>
    /\ UNCHANGED browser_vars

\* onClose called before onSave
Lesson_handleSubmitResume_closeFirst(throws) ==
    /\ cl_pc = "delay"
    /\ cl_pc' = "done"
    /\ IF ~throws
       THEN /\ cl_formData' = Lesson_initialFormData
            /\ cl_calls' = <<onClose, onSave(Lesson_cleanedData(cl_closure))>>
       ELSE /\ cl_calls' = <<onSave(Lesson_cleanedData(cl_closure))>>
            /\ UNCHANGED cl_formData
    /\ cl_isSubmitting' = FALSE
    /\ cl_closure' = Lesson_initialFormData
    /\ UNCHANGED <<cl_isOpen, cl_errors>>
    /\ UNCHANGED browser_vars

\* the continuation reading the form of the latest render
Lesson_handleSubmitResume_latestForm(throws) ==
    /\ cl_pc = "delay"
    /\ cl_pc' = "done"
    /\ IF ~throws
       THEN /\ cl_formData' = Lesson_initialFormData
            /\ cl_calls' = <<onSave(Lesson_cleanedData(cl_formData)), onClose>>
       ELSE /\ cl_calls' = <<onSave(Lesson_cleanedData(cl_formData))>>
            /\ UNCHANGED cl_formData
    /\ cl_isSubmitting' = FALSE
    /\ cl_closure' = Lesson_initialFormData
    /\ UNCHANGED <<cl_isOpen, cl_errors>>
    /\ UNCHANGED browser_vars

\* handleSubmit after the 1500 ms timer: try / catch / finally; the handler
\* returns and its closure is released.
\* onSave is the parent's callback; that it throws is the environment's choice.
Lesson_handleSubmitResume(throws) ==
    /\ cl_pc = "delay"
    /\ cl_pc' = "done"
    /\ IF ~throws
       THEN /\ cl_formData' = Lesson_initialFormData
            /\ cl_calls' = <<onSave(Lesson_cleanedData(cl_closure)), onClose>>
       ELSE /\ cl_calls' = <<onSave(Lesson_cleanedData(cl_closure))>>
            /\ UNCHANGED cl_formData
    /\ cl_isSubmitting' = FALSE
    /\ cl_closure' = Lesson_initialFormData
    /\ UNCHANGED <<cl_isOpen, cl_errors>>
    /\ UNCHANGED browser_vars

\* Cancel, X and the backdrop
Lesson_handleClose ==
    /\ cl_isOpen
    /\ cl_formData' = Lesson_initialFormData
    /\ cl_errors' = Lesson_noErrors
    /\ cl_calls' = <<onClose>>
    /\ UNCHANGED browser_vars
    /\ UNCHANGED <<cl_isOpen, cl_isSubmitting, cl_pc, cl_closure>>

\* the parent re-renders the modal with another isOpen
Lesson_setIsOpen(open) ==
    /\ cl_isOpen' = open
    /\ cl_isOpen' # cl_isOpen
    /\ cl_calls' = <<>>
    /\ UNCHANGED browser_vars
    /\ UNCHANGED <<cl_formData, cl_errors, cl_isSubmitting, cl_pc, cl_closure>>

Lesson_Init ==
    /\ cl_isOpen = FALSE
    /\ cl_formData = Lesson_initialFormData
    /\ cl_errors = Lesson_noErrors
    /\ cl_isSubmitting = FALSE
    /\ cl_pc = "idle"
    /\ cl_closure = Lesson_initialFormData
    /\ cl_calls = <<>>

Lesson_Next ==
    \/ \E name \in Lesson_inputNames : \E value \in Lesson_fieldValues(name) :
          Lesson_handleChange(name, value)
    \/ \E index \in 1..MaxItems : \E value \in Lesson_objectiveValues :
          Lesson_handleObjectiveChange(index, value)
    \/ Lesson_addObjective
    \/ \E index \in 1..MaxItems : Lesson_removeObjective(index)
    \/ \E index \in 1..MaxItems : \E value \in Lesson_materialValues :
          Lesson_handleMaterialChange(index, value)
    \/ Lesson_addMaterial
    \/ \E index \in 1..MaxItems : Lesson_removeMaterial(index)
    \/ Lesson_handleSubmit
    \/ \E throws \in BOOLEAN : Lesson_handleSubmitResume(throws)
    \/ Lesson_handleClose
    \/ \E open \in BOOLEAN : Lesson_setIsOpen(open)

----------------------------------------------------------------------------
(* CreateLessonModal.tsx : StudentDetailModal                              *)

\* the decimal digits of a natural number
RECURSIVE toDigits(_)
toDigits(n) == IF n < 10 THEN <<Digits[n + 1]>> ELSE toDigits(n \div 10) \o <<Digits[(n % 10) + 1]>>

\* Number.prototype.toString for an integer
toString(n) == IF n < 0 THEN <<"-">> \o toDigits(0 - n) ELSE toDigits(n)

\* the digits ds with sep put before every group of size digits, from the right
RECURSIVE groupDigits(_, _, _)
groupDigits(ds, size, sep) ==
    IF Len(ds) <= size THEN ds
    ELSE groupDigits(SubSeq(ds, 1, Len(ds) - size), size, sep)
             \o <<sep>> \o SubSeq(ds, Len(ds) - size + 1, Len(ds))

\* Number.prototype.toLocaleString() for an integer, in the locales followed:
\* en-US 1,234,567   de-DE 1.234.567   en-IN 12,34,567
toLocaleString(n, locale) ==
    LET ds == toDigits(IF n < 0 THEN 0 - n ELSE n)
        grouped ==
            CASE locale = "en-US" -> groupDigits(ds, 3, ",")
              [] locale = "de-DE" -> groupDigits(ds, 3, ".")
              [] locale = "en-IN" ->
                    IF Len(ds) <= 3 THEN ds
                    ELSE groupDigits(SubSeq(ds, 1, Len(ds) - 3), 2, ",")
                             \o <<",">> \o SubSeq(ds, Len(ds) - 2, Len(ds))
    IN  IF n < 0 THEN <<"-">> \o grouped ELSE grouped

Student_locales == {"en-US", "de-DE", "en-IN"}

\* the mock students passed by the parent; level 0 stands for an absent level
\* (student.level || ... treats both alike)
Student_ecoPointsValues == {0, 850, 1000, 1250, 123456, 1234567}

Student_students ==
    [ecoPoints : Student_ecoPointsValues, level : {0, 4},
     completedChallenges : {12}, streak : {0, 7}]

\* Eco Points computed from the completed challenges instead of read
Student_performanceData_derived(student, locale) ==
    [ecoPoints |-> toLocaleString(student.completedChallenges * 50, locale),
     level |-> toString(IF student.level # 0 THEN student.level
                        ELSE (student.ecoPoints \div 200) + 1),
     completedChallenges |-> toString(student.completedChallenges),
     streak |-> toString(student.streak) \o <<" ", "d", "a", "y", "s">>]

\* the value members of performanceData
Student_performanceData(student, locale) ==
    [ecoPoints |-> toLocaleString(student.ecoPoints, locale),
     level |-> toString(IF student.level # 0 THEN student.level
                        ELSE (student.ecoPoints \div 200) + 1),
     completedChallenges |-> toString(student.completedChallenges),
     streak |-> toString(student.streak) \o <<" ", "d", "a", "y", "s">>]

\* if (!isOpen) return null
Student_null == [isNull |-> TRUE, performanceData |-> <<>>]

\* the parent re-renders the modal with other props
Student_setProps(student, open) ==
    /\ <<student, open>> # <<sd_student, sd_isOpen>>
    /\ sd_student' = student
    /\ sd_isOpen' = open
    /\ sd_calls' = <<>>
    /\ UNCHANGED browser_vars
    /\ UNCHANGED <<sd_locale, sd_view>>

\* the body of the function component
Student_render ==
    /\ sd_view' = IF ~sd_isOpen THEN Student_null
                  ELSE [isNull |-> FALSE,
                        performanceData |-> <<Student_performanceData(sd_student, sd_locale)>>]
    /\ sd_calls' = <<>>
    /\ UNCHANGED browser_vars
    /\ UNCHANGED <<sd_student, sd_isOpen, sd_locale>>

\* the X button, the Close button and the backdrop
Student_onCloseClick ==
    /\ sd_view.isNull = FALSE
    /\ sd_calls' = <<onClose>>
    /\ UNCHANGED browser_vars
    /\ UNCHANGED <<sd_student, sd_isOpen, sd_locale, sd_view>>

Student_Init ==
    /\ sd_student = [ecoPoints |-> 1250, level |-> 0, completedChallenges |-> 12, streak |-> 7]
    /\ sd_isOpen = FALSE
    /\ sd_locale = "en-US"
    /\ sd_view = Student_null
    /\ sd_calls = <<>>

Student_Next ==
    \/ \E student \in Student_students : \E open \in BOOLEAN : Student_setProps(student, open)
    \/ Student_render
    \/ Student_onCloseClick

----------------------------------------------------------------------------
(* Forms the validation functions are applied to                           *)

SignUp_nameCases ==
    {<<>>, <<" ">>, <<"A", "l">>, <<" ", "A", "l", " ">>, <<"A", "1">>,
     <<"O", "'", "N", "e", "i", "l", ",", " ", "J", "r", ".", "-">>, <<"A", "_">>}

SignUp_emailCases ==
    {<<>>, <<" ">>, <<"a", "@", "b", ".", "c">>, <<"a", "@", "b">>, <<"@", "b", ".", "c">>,
     <<"a", "@", ".", "c">>, <<"a", "@", "b", ".">>, <<"a", " ", "@", "b", ".", "c">>,
     <<"a", "@", "@", "b", ".", "c">>, <<"a", "@", "b", "@", "c", ".", "d">>,
     <<"a", ".", "b", "@", "c", ".", "d", ".", "e">>, <<"a", "b", ".", "c">>,
     <<" ", "a", "@", "b", ".", "c">>}

SignUp_passwordCases == {<<>>, Rep("p", 5), Rep("p", 6), Rep(" ", 6), Rep("p", 7)}

SignUp_confirmPasswordCases == {<<>>, Rep("p", 5), Rep("p", 6), Rep("q", 6)}

SignUp_schoolCases == {<<>>, <<" ">>, <<"S", "t", ".", " ", "X">>, <<"P", "S", "9">>}

SignUp_formCases ==
    [name : SignUp_nameCases, email : SignUp_emailCases,
     password : SignUp_passwordCases, confirmPassword : SignUp_confirmPasswordCases,
     role : {"student", "teacher"}, grade : {<<>>, <<"6", "t", "h">>},
     school : SignUp_schoolCases, state : {<<>>, <<"G", "o", "a">>}]

Lesson_titleCases ==
    {<<>>, <<" ">>, <<"S", "o", "i", "l">>, <<"H", "2", "O">>, <<" ", "A", "i", "r", "-", "X">>}

Lesson_subjectCases == {<<>>, <<"E", "c", "o", "l", "o", "g", "y">>}

Lesson_descriptionCases ==
    {<<>>, Rep(" ", 20), Rep("d", 19), Rep("d", 20), Rep(" ", 19) \o <<"d">>}

Lesson_durationCases ==
    {<<>>, <<"1", "4">>, <<"1", "5">>, <<"1", "8", "0">>, <<"1", "8", "1">>,
     <<"-", "2", "0">>, <<"4", "5", ".", "5">>, <<"a", "b">>}

Lesson_objectivesCases ==
    {<< <<>> >>, << <<" ">>, <<>> >>, << <<"o">> >>, << <<>>, <<"o">>, <<" ">>, <<"p">> >>,
     << <<"p">>, <<"o">> >>}

Lesson_materialsCases ==
    {<< <<" ">> >>, << <<"m">>, <<>>, <<"n">> >>, << <<"n">>, <<"m">> >>}

Lesson_formCases ==
    [title : Lesson_titleCases, subject : Lesson_subjectCases,
     description : Lesson_descriptionCases, duration : {30},
     objectives : Lesson_objectivesCases,
     difficulty : {"Beginner", "Advanced"},
     category : {<<>>, <<"T", "h", "e", "o", "r", "y">>},
     prerequisites : {<<>>, <<"n", "o", "n", "e">>},
     materials : Lesson_materialsCases]

----------------------------------------------------------------------------
(* Specifications                                                          *)

Browser_Init ==
    /\ localStorage = {}
    /\ setItemCalls = 0
    /\ navigateCalls = <<>>

Init == Browser_Init /\ SignUp_Init /\ Lesson_Init /\ Student_Init

SignUpNext == SignUp_Next /\ UNCHANGED <<cl_vars, sd_vars>>

\* the lesson and student actions say themselves what they do to the browser
LessonNext == Lesson_Next /\ UNCHANGED <<su_vars, sd_vars>>

StudentNext == Student_Next /\ UNCHANGED <<su_vars, cl_vars>>

Next == SignUpNext \/ LessonNext \/ StudentNext

\* the three components side by side
Spec == Init /\ [][Next]_vars

\* the sign-up page
SpecSignUp == Init /\ [][SignUpNext]_vars

\* the lesson modal
SpecLesson == Init /\ [][LessonNext]_vars

\* the student report, in a browser of any of the locales
StudentLocale_Init ==
    /\ sd_student \in Student_students
    /\ sd_isOpen = FALSE
    /\ sd_locale \in Student_locales
    /\ sd_view = Student_null
    /\ sd_calls = <<>>
    /\ Browser_Init
    /\ SignUp_Init
    /\ Lesson_Init

SpecStudent == StudentLocale_Init /\ [][StudentNext]_vars

\* the sign-up page with the form already filled in, submitted as it is
SignUpSubmit_Init ==
    /\ su_formData \in SignUp_formCases
    /\ su_errors = SignUp_noErrors
    /\ su_isSubmitting = FALSE
    /\ su_isSuccess = FALSE
    /\ su_pc = "idle"
    /\ su_closure = SignUp_initialFormData
    /\ su_timer = FALSE
    /\ Browser_Init
    /\ Lesson_Init
    /\ Student_Init

SignUpSubmitNext ==
    /\ \/ SignUp_handleSubmit
       \/ \E throws \in BOOLEAN : SignUp_handleSubmitResume(throws)
       \/ SignUp_redirect
    /\ UNCHANGED <<cl_vars, sd_vars>>

SpecSignUpSubmit == SignUpSubmit_Init /\ [][SignUpSubmitNext]_vars

\* the lesson modal open with the form already filled in; the duration is
\* typed and the form submitted as it is
LessonSubmit_Init ==
    /\ cl_isOpen = TRUE
    /\ cl_formData \in Lesson_formCases
    /\ cl_errors = Lesson_noErrors
    /\ cl_isSubmitting = FALSE
    /\ cl_pc = "idle"
    /\ cl_closure = Lesson_initialFormData
    /\ cl_calls = <<>>
    /\ Browser_Init
    /\ SignUp_Init
    /\ Student_Init

LessonSubmitNext ==
    /\ \/ \E value \in Lesson_durationCases : Lesson_handleChange("duration", value)
       \/ Lesson_handleSubmit
       \/ \E throws \in BOOLEAN : Lesson_handleSubmitResume(throws)
    /\ UNCHANGED <<su_vars, sd_vars>>

SpecLessonSubmit == LessonSubmit_Init /\ [][LessonSubmitNext]_vars

\* the text fields checked while typing: name and school of the sign-up form
\* and the title of the lesson form, typed into and submitted
TextFieldsNext ==
    \/ /\ \/ \E value \in SignUp_nameCases : SignUp_handleChange("name", value)
          \/ \E value \in SignUp_schoolCases : SignUp_handleChange("school", value)
          \/ SignUp_handleSubmit
       /\ UNCHANGED <<cl_vars, sd_vars>>
    \/ /\ \/ \E value \in Lesson_titleCases : Lesson_handleChange("title", value)
          \/ Lesson_handleSubmit
          \/ \E open \in BOOLEAN : Lesson_setIsOpen(open)
       /\ UNCHANGED <<su_vars, sd_vars>>

SpecTextFields == Init /\ [][TextFieldsNext]_vars

\* both forms filled in, submitted and left to their timers: the timer of the
\* simulated delay and the redirect timer fire once they are set
Settle_Init ==
    /\ su_formData \in {fd \in SignUp_formCases :
                            /\ fd.name \in {<<"A", "l">>, <<"A", "1">>}
                            /\ fd.email = <<"a", "@", "b", ".", "c">>
                            /\ fd.password = Rep("p", 6)
                            /\ fd.confirmPassword = Rep("p", 6)
                            /\ fd.school = <<>>
                            /\ fd.state = <<>>}
    /\ su_errors = SignUp_noErrors
    /\ su_isSubmitting = FALSE
    /\ su_isSuccess = FALSE
    /\ su_pc = "idle"
    /\ su_closure = SignUp_initialFormData
    /\ su_timer = FALSE
    /\ cl_isOpen = TRUE
    /\ cl_formData \in {fd \in Lesson_formCases :
                            /\ fd.title \in {<<"S", "o", "i", "l">>, <<"H", "2", "O">>}
                            /\ fd.subject # <<>>
                            /\ fd.description = Rep("d", 20)
                            /\ fd.objectives = << <<"o">> >>
                            /\ fd.difficulty = "Beginner"
                            /\ fd.category # <<>>
                            /\ fd.prerequisites = <<>>
                            /\ fd.materials = << <<" ">> >>}
    /\ cl_errors = Lesson_noErrors
    /\ cl_isSubmitting = FALSE
    /\ cl_pc = "idle"
    /\ cl_closure = Lesson_initialFormData
    /\ cl_calls = <<>>
    /\ Browser_Init
    /\ Student_Init

\* the timer of the sign-up delay fires
SignUp_delayTimer ==
    (\E throws \in BOOLEAN : SignUp_handleSubmitResume(throws)) /\ UNCHANGED <<cl_vars, sd_vars>>

\* the redirect timer fires
SignUp_redirectTimer == SignUp_redirect /\ UNCHANGED <<cl_vars, sd_vars>>

\* the timer of the lesson delay fires
Lesson_delayTimer ==
    (\E throws \in BOOLEAN : Lesson_handleSubmitResume(throws)) /\ UNCHANGED <<su_vars, sd_vars>>

SettleNext ==
    \/ /\ \/ \E role \in {"student", "teacher"} : SignUp_selectRole(role)
          \/ SignUp_handleSubmit
       /\ UNCHANGED <<cl_vars, sd_vars>>
    \/ SignUp_delayTimer
    \/ SignUp_redirectTimer
    \/ /\ \/ \E value \in {<<"S", "o", "i", "l">>, <<"H", "2", "O">>} :
                 Lesson_handleChange("title", value)
          \/ Lesson_handleSubmit
          \/ Lesson_handleClose
          \/ \E open \in BOOLEAN : Lesson_setIsOpen(open)
       /\ UNCHANGED <<su_vars, sd_vars>>
    \/ Lesson_delayTimer

SpecSettle ==
    /\ Settle_Init
    /\ [][SettleNext]_vars
    /\ WF_vars(SignUp_delayTimer)
    /\ WF_vars(SignUp_redirectTimer)
    /\ WF_vars(Lesson_delayTimer)

----------------------------------------------------------------------------
(* The sign-up checks as the specification words them                      *)

Field_nonBlank(s) == \E i \in 1..Len(s) : s[i] \notin WhiteSpace

\* letters, whitespace and . , ' -
Field_textOnly(s) ==
    \A i \in 1..Len(s) :
        s[i] \in LowerCase \cup UpperCase \cup WhiteSpace \cup {".", ",", "'", "-"}

\* local@domain.tld with no whitespace and a single @
Field_emailShape(s) ==
    /\ Cardinality({i \in 1..Len(s) : s[i] = "@"}) = 1
    /\ \A i \in 1..Len(s) : s[i] \notin WhiteSpace
    /\ LET at == CHOOSE i \in 1..Len(s) : s[i] = "@"
       IN  /\ at > 1
           /\ \E dot \in (at + 2)..(Len(s) - 1) : s[dot] = "."

SignUp_checkedFields == {"name", "email", "password", "confirmPassword", "grade", "school"}

SignUp_fieldOk(k, fd) ==
    CASE k = "name" -> Field_nonBlank(fd.name) /\ Field_textOnly(fd.name)
      [] k = "email" -> Field_nonBlank(fd.email) /\ Field_emailShape(fd.email)
      [] k = "password" -> Len(fd.password) >= 6
      [] k = "confirmPassword" -> fd.confirmPassword # <<>> /\ fd.confirmPassword = fd.password
      [] k = "grade" -> fd.role = "student" => fd.grade # <<>>
      [] k = "school" -> fd.school = <<>> \/ Field_textOnly(fd.school)

SignUp_allOk(fd) == \A k \in SignUp_checkedFields : SignUp_fieldOk(k, fd)

\* the phase of the submission flow shown by the three pieces of state
SignUp_phase ==
    IF su_isSubmitting THEN "submitting"
    ELSE IF su_isSuccess THEN "success"
    ELSE IF IsSet(su_errors.general) THEN "error"
    ELSE "idle"

\* at most one of isSubmitting, isSuccess and errors.general holds
SignUp_phasesExclusive ==
    /\ ~(su_isSuccess /\ IsSet(su_errors.general))
    /\ ~(su_isSubmitting /\ su_isSuccess)
    /\ ~(su_isSubmitting /\ IsSet(su_errors.general))

\* submitting is entered only by a submit of a form that passes every check;
\* success and error are entered only from submitting
SignUp_phaseEntries ==
    /\ (~su_isSubmitting /\ su_isSubmitting') =>
           (SignUp_allOk(su_formData) /\ su_formData' = su_formData)
    /\ (~su_isSuccess /\ su_isSuccess') => (su_isSubmitting /\ ~su_isSubmitting')
    /\ (~IsSet(su_errors.general) /\ IsSet(su_errors'.general)) =>
           (su_isSubmitting /\ ~su_isSubmitting')

\* C1 as stated: the sign-up flow has only the phases idle, submitting,
\* success and error and only the transitions idle -> submitting ->
\* (success | error); submitting is entered only by a validated submit,
\* success and error only from submitting, and isSuccess and errors.general
\* are never both set.
C1_OnlyForwardTransitions ==
    /\ [](SignUp_phasesExclusive)
    /\ [][/\ SignUp_phaseEntries
          /\ SignUp_phase' # SignUp_phase =>
                <<SignUp_phase, SignUp_phase'>> \in
                    {<<"idle", "submitting">>, <<"submitting", "success">>,
                     <<"submitting", "error">>}]_vars

\* C1 amended: besides idle -> submitting -> (success | error) the flow
\* leaves the error phase again: error -> submitting when a submit passes
\* validation, error -> idle when a submit fails validation (validateForm
\* replaces the errors, the general message included).  The other parts of
\* C1 hold as stated.
C1_Transitions ==
    /\ [](SignUp_phasesExclusive)
    /\ [][/\ SignUp_phaseEntries
          /\ SignUp_phase' # SignUp_phase =>
                <<SignUp_phase, SignUp_phase'>> \in
                    {<<"idle", "submitting">>, <<"submitting", "success">>,
                     <<"submitting", "error">>, <<"error", "submitting">>,
                     <<"error", "idle">>}]_vars

\* a failed submission was retried and failed again: the error phase, entered
\* from a submission that was itself started while the message was shown
C1_Witness ==
    /\ SignUp_phase = "error"
    /\ su_pc = "done"
    /\ su_formData.school # su_closure.school

\* C2: the field checks gate every side effect.  A submit of a form that fails
\* a check leaves isSubmitting false, starts no delay, writes nothing to
\* localStorage and schedules no navigation; the delay, the write of
\* 'currentUser' and the navigation belong to a submitted form that passed
\* every check.
C2_ChecksGateEffects ==
    /\ []((su_pc # "idle") => SignUp_allOk(su_closure))
    /\ []((localStorage # {} \/ setItemCalls # 0 \/ su_timer \/ navigateCalls # <<>>) =>
              (su_pc = "done" /\ SignUp_allOk(su_closure)))
    /\ [][(SignUp_handleSubmit /\ ~SignUp_allOk(su_formData)) =>
              /\ su_isSubmitting' = FALSE
              /\ su_pc' # "delay"
              /\ UNCHANGED <<su_pc, su_timer, localStorage, setItemCalls, navigateCalls>>]_vars

\* a submit was rejected (the grade is missing) and nothing was started
C2_Witness ==
    /\ IsSet(su_errors.grade)
    /\ ~IsSet(su_errors.name)
    /\ ~su_isSubmitting
    /\ su_pc = "idle"
    /\ localStorage = {}
    /\ navigateCalls = <<>>

\* C3: validateForm returns true (the submit goes on to isSubmitting) exactly
\* when name is non-blank and text-only, email is non-blank and shaped
\* local@domain.tld, password has at least 6 characters, confirmPassword is
\* non-empty and equals password, grade is chosen for a student, and school is
\* empty or text-only; otherwise exactly the failing fields get an error.
C3_ValidateForm ==
    [][SignUp_handleSubmit =>
          /\ su_isSubmitting' = SignUp_allOk(su_formData)
          /\ \A k \in SignUp_checkedFields :
                IsSet(su_errors'[k]) = ~SignUp_fieldOk(k, su_formData)
          /\ ~IsSet(su_errors'.state)
          /\ ~IsSet(su_errors'.general)]_vars

\* a teacher's form was rejected for its name and its e-mail only
C3_Witness ==
    /\ su_pc = "idle"
    /\ su_formData.role = "teacher"
    /\ su_formData.grade = <<>>
    /\ su_formData.school = <<" ">>
    /\ su_formData.confirmPassword = Rep("p", 6)
    /\ {k \in SignUp_ErrorKeys : IsSet(su_errors[k])} = {"name", "email"}

\* the value stored under 'currentUser' has the member <<key, value>>
SignUp_stored(key, value) ==
    \E it \in localStorage : it.key = "currentUser" /\ <<key, value>> \in it.value

\* C4: after a successful sign-up a student is navigated to '/dashboard' and a
\* teacher to '/teacher'; no other route is navigated to.
C4_RouteByRole ==
    \A i \in 1..Len(navigateCalls) :
        \/ navigateCalls[i] = "/dashboard" /\ SignUp_stored("role", "student")
        \/ navigateCalls[i] = "/teacher" /\ SignUp_stored("role", "teacher")

\* a teacher signed up and was redirected
C4_Witness == navigateCalls = <<"/teacher">> /\ SignUp_stored("role", "teacher")

\* C5: when the storage write throws, errors.general becomes the static
\* message, isSubmitting returns to false, isSuccess stays false, no
\* navigation is scheduled, nothing is stored, and the form data is left as it
\* is, with the form still on screen for another submit.
C5_FailureShowsMessage ==
    [][SignUp_handleSubmitResume(TRUE) =>
          /\ su_errors'.general = "Registration failed. Please try again."
          /\ su_isSubmitting' = FALSE
          /\ su_isSuccess' = FALSE
          /\ su_timer' = FALSE
          /\ UNCHANGED <<su_formData, localStorage, setItemCalls, navigateCalls>>
          /\ SignUp_formRendered']_vars

\* the write threw: the message is shown over the form as it was submitted
C5_Witness ==
    /\ su_errors = SignUp_catchErrors
    /\ su_pc = "done"
    /\ su_formData = su_closure
    /\ ~su_isSubmitting

\* C6: for a validated submit whose write succeeds, each effect happens once
\* and in order: the delay ends, 'currentUser' is written, the success state
\* is shown, and then a single navigation fires; no navigation precedes the
\* write.
C6_EffectsInOrder ==
    /\ [](setItemCalls <= 1 /\ Len(navigateCalls) <= 1)
    /\ []((su_pc = "delay") => (setItemCalls = 0 /\ ~su_isSuccess /\ ~su_timer))
    /\ [](su_isSuccess = (setItemCalls = 1))
    /\ []((su_timer \/ navigateCalls # <<>>) => (su_isSuccess /\ localStorage # {}))
    /\ [](~(su_timer /\ navigateCalls # <<>>))
    /\ [][(setItemCalls' # setItemCalls) =>
              (su_pc = "delay" /\ su_isSuccess' /\ su_timer' /\ navigateCalls' = <<>>)]_vars
    /\ [][(navigateCalls' # navigateCalls) =>
              (su_timer /\ ~su_timer' /\ setItemCalls = 1 /\ su_isSuccess)]_vars

\* the whole sequence has run: one write, then one navigation
C6_Witness ==
    /\ setItemCalls = 1
    /\ su_isSuccess
    /\ Len(navigateCalls) = 1
    /\ ~su_timer

----------------------------------------------------------------------------
(* The lesson checks as the specification words them                       *)

Lesson_checkedFields == {"title", "subject", "description", "duration", "objectives", "category"}

Lesson_fieldOk(k, fd) ==
    CASE k = "title" -> Field_nonBlank(fd.title) /\ Field_textOnly(fd.title)
      [] k = "subject" -> Field_nonBlank(fd.subject)
      [] k = "description" -> Field_nonBlank(fd.description) /\ Len(fd.description) >= 20
      [] k = "duration" -> fd.duration \in Int /\ 15 <= fd.duration /\ fd.duration <= 180
      [] k = "objectives" -> \E i \in 1..Len(fd.objectives) : Field_nonBlank(fd.objectives[i])
      [] k = "category" -> Field_nonBlank(fd.category)

Lesson_allOk(fd) == \A k \in Lesson_checkedFields : Lesson_fieldOk(k, fd)

\* the lessons passed to onSave by the last step
Lesson_saved == {cl_calls[i].arg : i \in {j \in 1..Len(cl_calls) : cl_calls[j].fn = "onSave"}}

\* C7 as stated: no lesson is passed to onSave unless its title, description,
\* objectives and materials passed a presence check: the saved lesson has a
\* non-blank title, a non-blank description, at least one non-blank objective
\* and at least one non-blank material.
C7_SavedLessonHasMaterials ==
    \A lesson \in Lesson_saved :
        /\ Field_nonBlank(lesson.title)
        /\ Field_nonBlank(lesson.description)
        /\ \E i \in 1..Len(lesson.objectives) : Field_nonBlank(lesson.objectives[i])
        /\ \E i \in 1..Len(lesson.materials) : Field_nonBlank(lesson.materials[i])

\* C7 amended: the saved lesson has a non-blank title, a non-blank description
\* and at least one non-blank objective, and no blank objective or material;
\* materials are optional and not checked, so it may have no material at all.
C7_SavedLessonChecked ==
    \A lesson \in Lesson_saved :
        /\ Field_nonBlank(lesson.title)
        /\ Field_nonBlank(lesson.description)
        /\ \E i \in 1..Len(lesson.objectives) : Field_nonBlank(lesson.objectives[i])
        /\ \A i \in 1..Len(lesson.objectives) : Field_nonBlank(lesson.objectives[i])
        /\ \A i \in 1..Len(lesson.materials) : Field_nonBlank(lesson.materials[i])

\* a lesson was saved without any material
C7_Witness == \E lesson \in Lesson_saved : lesson.materials = <<>> /\ lesson.objectives # <<>>

\* C8: the lesson validateForm returns true (the submit goes on to
\* isSubmitting) exactly when title is non-blank and text-only, subject is
\* non-blank, description is non-blank and at least 20 characters long,
\* duration is an integer from 15 to 180, an objective is non-blank and
\* category is non-blank; otherwise exactly the failing fields get an error.
\* Text without a leading number typed as duration is stored as 0.
\* Difficulty, prerequisites and materials cause no error.
C8_LessonValidateForm ==
    /\ [][Lesson_handleSubmit =>
             /\ cl_isSubmitting' = Lesson_allOk(cl_formData)
             /\ \A k \in Lesson_checkedFields :
                   IsSet(cl_errors'[k]) = ~Lesson_fieldOk(k, cl_formData)]_vars
    /\ [](cl_formData.duration \in Int)
    /\ [][(\E value \in {v \in Lesson_durationCases : \A i \in 1..Len(v) : ~IsDigit(v[i])} :
               Lesson_handleChange("duration", value)) =>
             cl_formData'.duration = 0]_vars

\* the duration field was emptied, stored as 0, and the submit rejected for
\* the duration and the 19-character description only
C8_Witness ==
    /\ cl_formData.duration = 0
    /\ cl_formData.description = Rep("d", 19)
    /\ cl_formData.materials = << <<" ">> >>
    /\ cl_pc = "idle"
    /\ {k \in Lesson_ErrorKeys : IsSet(cl_errors[k])} = {"description", "duration"}

\* C9: creating a lesson persists nothing: over any sequence of edits,
\* submits and closes the browser storage stays unwritten and the router
\* untouched; what leaves the component are calls of onSave and onClose.
C9_NothingPersisted ==
    /\ localStorage = {}
    /\ setItemCalls = 0
    /\ navigateCalls = <<>>
    /\ \A i \in 1..Len(cl_calls) : cl_calls[i].fn \in {"onSave", "onClose"}

\* a lesson was saved and the modal closed, with the storage still empty
C9_Witness ==
    /\ Len(cl_calls) = 2
    /\ cl_calls[1].fn = "onSave"
    /\ cl_calls[2].fn = "onClose"
    /\ localStorage = {}

\* the number a displayed figure denotes: its digits, group separators dropped
Figure_number(text) == decimalValue(SelectSeq(text, IsDigit))

\* C10: the Eco Points figure of the report is student.ecoPoints itself, for
\* every student: rendering formats the number and neither derives it from
\* anything else nor changes the student record, which only the parent's
\* props replace.
C10_EcoPointsVerbatim ==
    /\ [][Student_render =>
             /\ sd_student' = sd_student
             /\ sd_isOpen =>
                   Figure_number(sd_view'.performanceData[1].ecoPoints) = sd_student.ecoPoints]_vars
    /\ [][sd_student' # sd_student =>
             \E student \in Student_students : \E open \in BOOLEAN :
                 Student_setProps(student, open)]_vars

\* the report of a student with 1,234,567 points is on screen, grouped the
\* Indian way
C10_Witness ==
    /\ ~sd_view.isNull
    /\ sd_locale = "en-IN"
    /\ sd_student.ecoPoints = 1234567
    /\ sd_view.performanceData[1].ecoPoints =
           <<"1", "2", ",", "3", "4", ",", "5", "6", "7">>

\* the members of the record stored under 'currentUser'
SignUp_currentUser == UNION {it.value : it \in {i \in localStorage : i.key = "currentUser"}}

\* the keys of the stored record
SignUp_currentUserKeys == {m[1] : m \in SignUp_currentUser}

\* what a submitted form determines of the stored record: read from name,
\* email, role, grade, school and state only
SignUp_submittedFields(fd) ==
    {<<"name", fd.name>>, <<"email", fd.email>>, <<"role", fd.role>>}
    \cup {<<k, fd[k]>> : k \in {j \in {"grade"} : fd.role = "student"}}
    \cup {<<k, fd[k]>> : k \in {j \in {"school", "state"} : fd[j] # <<>>}}

\* C11: the record stored under 'currentUser' reflects the form as it was when
\* the submit was accepted: name, email and role are the submitted values,
\* grade is present exactly for a student, school and state exactly when
\* non-empty, and password and confirmPassword are never part of it; apart
\* from id and joinDate the record is determined by the six other fields, so
\* submissions differing only in password store the same fields.
C11_StoredRecord ==
    (localStorage # {}) =>
        /\ \A it \in localStorage : it.key = "currentUser"
        /\ Cardinality(SignUp_currentUserKeys) = Cardinality(SignUp_currentUser)
        /\ \A k \in {"name", "email", "role"} : <<k, su_closure[k]>> \in SignUp_currentUser
        /\ ("grade" \in SignUp_currentUserKeys) = (su_closure.role = "student")
        /\ ("school" \in SignUp_currentUserKeys) = (su_closure.school # <<>>)
        /\ ("state" \in SignUp_currentUserKeys) = (su_closure.state # <<>>)
        /\ "password" \notin SignUp_currentUserKeys
        /\ "confirmPassword" \notin SignUp_currentUserKeys
        /\ {m \in SignUp_currentUser : m[1] \notin {"id", "joinDate"}} =
               SignUp_submittedFields(su_closure)

\* a teacher's form was accepted with the 7-character password and edited
\* during the delay: the record has the submitted name and school, no grade
C11_Witness ==
    /\ localStorage # {}
    /\ su_closure.password = Rep("p", 7)
    /\ su_closure.role = "teacher"
    /\ su_closure.grade # <<>>
    /\ su_closure.state = <<>>
    /\ su_formData.school # su_closure.school
    /\ su_formData.role # su_closure.role
    /\ "grade" \notin SignUp_currentUserKeys

\* a value the real-time check objects to: non-empty, with a character outside
\* letters, whitespace and . , ' -
Field_notTextOnly(v) == v # <<>> /\ ~Field_textOnly(v)

\* C12 as stated: after a change event on the sign-up name or school field or
\* on the lesson title field with new value v, the field's error is set
\* exactly when v is non-empty and has a character outside letters,
\* whitespace and . , ' - , whatever the field's error was before.
C12_RealTimeTextCheck ==
    /\ [][\A value \in SignUp_nameCases :
             SignUp_handleChange("name", value) =>
                 IsSet(su_errors'.name) = Field_notTextOnly(value)]_vars
    /\ [][\A value \in SignUp_schoolCases :
             SignUp_handleChange("school", value) =>
                 IsSet(su_errors'.school) = Field_notTextOnly(value)]_vars
    /\ [][\A value \in Lesson_titleCases :
             Lesson_handleChange("title", value) =>
                 IsSet(cl_errors'.title) = Field_notTextOnly(value)]_vars

\* the non-blank entries of a list, in the order of the list
Field_keptEntries(list) ==
    LET kept == {i \in 1..Len(list) : Field_nonBlank(list[i])}
    IN  [k \in 1..Cardinality(kept) |->
            list[CHOOSE i \in kept : Cardinality({j \in kept : j < i}) = k - 1]]

\* C13: the lesson handed to onSave is the form as it was when the submit
\* passed validation, with blank objectives and materials removed and the
\* order of the others kept; every other field is passed unchanged, and edits
\* made during the delay do not appear in it.
C13_SavedLessonIsSubmittedForm ==
    /\ [][(Lesson_handleSubmit /\ cl_isSubmitting') => cl_closure' = cl_formData]_vars
    /\ [][(cl_pc = "delay") => (cl_closure' = cl_closure \/ cl_pc' = "done")]_vars
    /\ [][(\E throws \in BOOLEAN : Lesson_handleSubmitResume(throws)) =>
             /\ cl_calls'[1].fn = "onSave"
             /\ cl_calls'[1].arg.objectives = Field_keptEntries(cl_closure.objectives)
             /\ cl_calls'[1].arg.materials = Field_keptEntries(cl_closure.materials)
             /\ \A k \in DOMAIN cl_closure \ {"objectives", "materials"} :
                    cl_calls'[1].arg[k] = cl_closure[k]
             /\ DOMAIN cl_calls'[1].arg = DOMAIN cl_closure]_vars

\* a lesson submitted with duration 180 and two blank objectives among four
\* was saved as submitted although the duration was changed during the delay
C13_Witness ==
    /\ cl_calls # <<>>
    /\ cl_calls[1].fn = "onSave"
    /\ cl_calls[1].arg.duration = 180
    /\ cl_formData.duration = 15
    /\ cl_formData.objectives = << <<>>, <<"o">>, <<" ">>, <<"p">> >>
    /\ cl_calls[1].arg.objectives = << <<"o">>, <<"p">> >>
    /\ cl_formData.materials = << <<"m">>, <<>>, <<"n">> >>
    /\ cl_calls[1].arg.materials = << <<"m">>, <<"n">> >>

\* the positions of the calls of fn among the calls of a step
Lesson_callsOf(calls, fn) == {i \in 1..Len(calls) : calls[i].fn = fn}

C15_RejectedLessonSubmit ==
    [][(Lesson_handleSubmit /\ ~Lesson_allOk(cl_formData)) =>
          /\ cl_calls' = <<>>
          /\ cl_formData' = cl_formData
          /\ ~cl_isSubmitting /\ ~cl_isSubmitting'
          /\ UNCHANGED <<cl_isOpen, cl_pc, cl_closure>>
          /\ cl_pc' # "delay"
          /\ \E k \in Lesson_ErrorKeys : IsSet(cl_errors'[k])
          /\ \A k \in Lesson_ErrorKeys :
                 IsSet(cl_errors'[k]) = ~Lesson_fieldOk(k, cl_formData)]_vars

\* a form with a title of digits and blank objectives was rejected: nothing
\* called, nothing started, the form as typed
C15_Witness ==
    /\ cl_pc = "idle"
    /\ ~cl_isSubmitting
    /\ cl_calls = <<>>
    /\ cl_formData.title = <<"H", "2", "O">>
    /\ cl_formData.objectives = << <<" ">>, <<>> >>
    /\ cl_formData.duration = 45
    /\ {k \in Lesson_ErrorKeys : IsSet(cl_errors[k])} = {"title", "objectives"}

\* a message the step has put on screen: an error slot set by it
Lesson_messageShown ==
    \E k \in DOMAIN cl_errors' :
        IsSet(cl_errors'[k]) /\ (k \in DOMAIN cl_errors => cl_errors'[k] # cl_errors[k])

\* C16 as stated: when onSave throws during a lesson submit the failure is
\* contained: onClose is not called, the form data is not reset, isSubmitting
\* returns to false so that the lesson can be submitted again, and the user
\* is shown a static failure message.
C16_LessonFailureShown ==
    [][Lesson_handleSubmitResume(TRUE) =>
          /\ Lesson_callsOf(cl_calls', "onClose") = {}
          /\ cl_formData' = cl_formData
          /\ cl_isOpen' = cl_isOpen
          /\ ~cl_isSubmitting'
          /\ Lesson_messageShown]_vars

\* C17: every submit that passes validation settles, the timers firing: in
\* the sign-up form isSubmitting returns to false and, when the storage write
\* succeeded, the navigation fires; in the lesson modal isSubmitting returns
\* to false.  No form stays in submitting forever.
C17_SubmitsSettle ==
    /\ su_isSubmitting ~> ~su_isSubmitting
    /\ (setItemCalls > 0) ~> (navigateCalls # <<>>)
    /\ cl_isSubmitting ~> ~cl_isSubmitting
    /\ [](su_isSubmitting => ENABLED SignUp_delayTimer)
    /\ [](cl_isSubmitting => ENABLED Lesson_delayTimer)

\* both submits have settled: the sign-up was stored and navigated away, the
\* lesson submit ended with a throwing onSave
C17_Witness ==
    /\ su_pc = "done" /\ ~su_isSubmitting
    /\ setItemCalls = 1
    /\ navigateCalls = <<"/dashboard">>
    /\ cl_pc = "done" /\ ~cl_isSubmitting
    /\ Lesson_callsOf(cl_calls, "onSave") = {1}
    /\ Lesson_callsOf(cl_calls, "onClose") = {}

\* C18: a change event on the sign-up email, password, confirmPassword, grade
\* or state field stores the new value in that field only, clears that
\* field's own error if it had one, and leaves every other field's value and
\* every other field's error, the general error included, unchanged.
C18_ChangeTouchesOwnField ==
    [][\A name \in {"email", "password", "confirmPassword", "grade", "state"} :
       \A value \in SignUp_fieldValues(name) :
          SignUp_handleChange(name, value) =>
             /\ su_formData'[name] = value
             /\ \A k \in DOMAIN su_formData \ {name} : su_formData'[k] = su_formData[k]
             /\ ~IsSet(su_errors'[name])
             /\ \A k \in SignUp_ErrorKeys \ {name} : su_errors'[k] = su_errors[k]
             /\ UNCHANGED <<su_isSubmitting, su_isSuccess, su_pc, su_closure, su_timer>>
             /\ UNCHANGED browser_vars]_vars

\* after a rejected submit a 5-character password was typed: its own error is
\* gone, the errors of name, email and confirmPassword are still shown
C18_Witness ==
    /\ su_pc = "idle"
    /\ su_formData.password = Rep("p", 5)
    /\ ~IsSet(su_errors.password)
    /\ IsSet(su_errors.name)
    /\ IsSet(su_errors.email)
    /\ IsSet(su_errors.confirmPassword)
    /\ IsSet(su_errors.grade)

\* C19 as stated: the portal named on the sign-up success screen is the
\* portal the user is then navigated to, also when the role buttons are
\* clicked during the delay: 'student' is shown exactly when the navigation
\* goes to '/dashboard' and 'teacher' exactly when it goes to '/teacher'.
C19_ShownPortalIsDestination ==
    su_isSuccess =>
        \A i \in 1..Len(navigateCalls) :
            /\ (SignUp_successPortal = "student") = (navigateCalls[i] = "/dashboard")
            /\ (SignUp_successPortal = "teacher") = (navigateCalls[i] = "/teacher")

\* handleClose has just run while the submission was in its delay: the last
\* step called onClose alone, which only handleClose does, and left the delay
\* pending
Lesson_closedInDelay == cl_pc = "delay" /\ cl_calls = <<onClose>>

\* C20 as stated: if the lesson modal is closed through handleClose while a
\* submission is in its delay, then when the delay ends the cancelled lesson
\* is not passed to onSave and onClose is not called a second time.
C20_CancelledLessonNotSaved ==
    [][(Lesson_closedInDelay /\ cl_pc' = "done") =>
          /\ Lesson_callsOf(cl_calls', "onSave") = {}
          /\ Lesson_callsOf(cl_calls', "onClose") = {}]_vars

\* C21: at most one submission is in flight per form.  While isSubmitting is
\* true the submit control is disabled and handleSubmit cannot run, a pending
\* delay keeps isSubmitting true, so no second delay starts and the pending
\* submission is not replaced; each accepted sign-up submit makes at most one
\* storage write and each accepted lesson submit at most one onSave call,
\* made by the step that ends its delay.
C21_OneSubmissionInFlight ==
    /\ [](su_isSubmitting => (SignUp_submitDisabled /\ ~ENABLED SignUp_handleSubmit))
    /\ [](cl_isSubmitting => (Lesson_submitDisabled /\ ~ENABLED Lesson_handleSubmit))
    /\ []((su_pc = "delay") => su_isSubmitting)
    /\ []((cl_pc = "delay") => cl_isSubmitting)
    /\ [][(su_pc = "delay" /\ su_pc' = "delay") => su_closure' = su_closure]_vars
    /\ [][(cl_pc = "delay" /\ cl_pc' = "delay") => cl_closure' = cl_closure]_vars
    /\ [][(setItemCalls' # setItemCalls) =>
             /\ setItemCalls' = setItemCalls + 1
             /\ su_pc = "delay" /\ su_pc' = "done"]_vars
    /\ [][(cl_vars' # cl_vars /\ Lesson_callsOf(cl_calls', "onSave") # {}) =>
             /\ Cardinality(Lesson_callsOf(cl_calls', "onSave")) = 1
             /\ cl_pc = "delay" /\ cl_pc' = "done"]_vars

\* both forms have a submission in flight, the role switched and the modal's
\* Cancel pressed meanwhile: both submit buttons are disabled
C21_Witness ==
    /\ su_pc = "delay" /\ SignUp_submitDisabled
    /\ cl_pc = "delay" /\ Lesson_submitDisabled
    /\ su_formData.role # su_closure.role
    /\ cl_calls = <<onClose>>
    /\ setItemCalls = 0

====
